---- MODULE Spec2Model ----
(***************************************************************************)
(* Model of server/src/apub/post.rs: the ActivityPub translation of a      *)
(* Post (to_apub, to_tombstone, from_apub), the HTTP read get_apub_post    *)
(* and the nine send_* operations that announce a mutation of a Post to    *)
(* the followers of its community.                                         *)
(*                                                                         *)
(* An Option<T> is a sequence: None is << >>, Some(v) is <<v>>.            *)
(* A Result is a record [tag, err]; tag "Panic" is an unwrap() of None,    *)
(* which unwinds the task instead of returning to the caller.              *)
(***************************************************************************)
EXTENDS Integers, Sequences, FiniteSets, TLC

VARIABLES
  posts,        \* storage: post id -> Post row
  users,        \* storage: user id -> User_ row
  communities,  \* storage: community id -> Community row
  task,         \* the operation in flight (or the last one finished)
  minted,       \* every activity id minted so far, in order, with its operation
  rng           \* state of the uuid generator

vars == <<posts, users, communities, task, minted, rng>>

\* ----------------------------------------------------------------- bounds

\* Activity ids that may be minted in one behaviour.
MaxMinted == 3

\* -------------------------------------------------------------- primitives

None == << >>
Some(v) == <<v>>

Ok == [tag |-> "Ok", err |-> ""]
Err(e) == [tag |-> "Err", err |-> e]
Panic == [tag |-> "Panic", err |-> "unwrap on None"]

\* Settings::get().hostname and get_apub_protocol_string()
Hostname == "lemmy.test"
ProtocolString == "https"

\* str::parse::<XsdAnyUri>: only an absolute URI parses.
WellFormedUris ==
  { "https://lemmy.test/post/1", "https://lemmy.test/u/alice",
    "https://lemmy.test/u/bob", "https://lemmy.test/c/main" }
ParsesAsUri(s) == s \in WellFormedUris

\* info.post_id.parse::<i32>() on the path segments a client may send.
ParseI32(s) ==
  CASE s = "1" -> Some(1)
    [] s = "2" -> Some(2)
    [] OTHER   -> None

\* convert_datetime: a NaiveDateTime taken as UTC, at offset 0.
convert_datetime(t) == [utc |-> t, offset |-> 0]
\* DateTime::naive_local
naive_local(d) == d.utc + d.offset

\* uuid::Uuid::new_v4(): the n-th value drawn from the generator.
new_v4(n) == "uuid-" \o ToString(n)

\* ------------------------------------------------------------------ actors

\* User_ rows: the author of the post and a moderator of its community.
Alice == [id |-> 1, actor_id |-> "https://lemmy.test/u/alice"]
Bob == [id |-> 2, actor_id |-> "https://lemmy.test/u/bob"]
\* Community row.
MainCommunity == [id |-> 1, actor_id |-> "https://lemmy.test/c/main"]

get_followers_url(community) == community.actor_id \o "/followers"
get_shared_inbox_url(community) == community.actor_id \o "/inbox"

\* ------------------------------------------------------------------- posts

BasePost ==
  [ id |-> 1, name |-> "title", url |-> None, body |-> None,
    creator_id |-> Alice.id, community_id |-> MainCommunity.id,
    removed |-> FALSE, locked |-> FALSE, published |-> 10, updated |-> None,
    deleted |-> FALSE, nsfw |-> FALSE, stickied |-> FALSE,
    embed_title |-> None, embed_description |-> None, embed_html |-> None,
    thumbnail_url |-> None, ap_id |-> "https://lemmy.test/post/1",
    local |-> TRUE ]

Urls == { None, Some(""), Some("https://example.org/a") }
Opt(v) == { None, Some(v) }

\* Every combination of the fields the translation reads.
AllPosts ==
  { [BasePost EXCEPT !.url = u, !.body = b, !.embed_title = et,
                     !.embed_description = ed, !.embed_html = eh,
                     !.thumbnail_url = th, !.updated = up,
                     !.locked = l, !.nsfw = n, !.deleted = d, !.ap_id = a] :
      u \in Urls, b \in Opt("text"), et \in Opt("etitle"),
      ed \in Opt("edesc"), eh \in Opt("<p>e</p>"), th \in Opt("t.jpg"),
      up \in Opt(20), l \in BOOLEAN, n \in BOOLEAN, d \in BOOLEAN,
      a \in {"https://lemmy.test/post/1", "changeme"} }

\* The posts the send_* operations are exercised on.
FacadePosts ==
  { [BasePost EXCEPT !.url = u, !.embed_title = Some("etitle")] :
      u \in {None, Some("https://example.org/a")} }

\* -------------------------------------------------------------- translation

\* Mutant: to_apub without the filter on the empty url.
to_apub_page_unfiltered(self, creator, community) ==
  [ inner |->
      [ id |-> Some(self.ap_id), summary |-> Some(self.name),
        published |-> Some(convert_datetime(self.published)),
        to |-> Some(community.actor_id),
        attributed_to |-> Some(creator.actor_id),
        content |-> self.body, url |-> self.url,
        preview |->
          IF self.url # None
            THEN Some([ url |-> self.url[1], name |-> self.embed_title,
                        summary |-> self.embed_description,
                        content |-> self.embed_html ])
            ELSE None,
        image |->
          IF self.thumbnail_url # None
            THEN Some(ProtocolString \o "://" \o Hostname \o "/pictshare/"
                        \o self.thumbnail_url[1])
            ELSE None,
        updated |->
          IF self.updated # None
            THEN Some(convert_datetime(self.updated[1])) ELSE None ],
    ext_one |-> [ comments_enabled |-> ~self.locked,
                  sensitive |-> self.nsfw ] ]

\* Post::to_apub once creator and community are read: the PageExt it builds.
to_apub_page(self, creator, community) ==
  LET url == IF self.url # None /\ self.url[1] # "" THEN self.url ELSE None
      preview ==
        IF url # None
          THEN Some([ url |-> url[1], name |-> self.embed_title,
                      summary |-> self.embed_description,
                      content |-> self.embed_html ])
          ELSE None
      image ==
        IF self.thumbnail_url # None
          THEN Some(ProtocolString \o "://" \o Hostname \o "/pictshare/"
                      \o self.thumbnail_url[1])
          ELSE None
      updated ==
        IF self.updated # None
          THEN Some(convert_datetime(self.updated[1])) ELSE None
  IN [ inner |->
         [ id |-> Some(self.ap_id), summary |-> Some(self.name),
           published |-> Some(convert_datetime(self.published)),
           to |-> Some(community.actor_id),
           attributed_to |-> Some(creator.actor_id),
           content |-> self.body, url |-> url, preview |-> preview,
           image |-> image, updated |-> updated ],
       ext_one |-> [ comments_enabled |-> ~self.locked,
                     sensitive |-> self.nsfw ] ]

\* Post::to_tombstone, through create_tombstone.
to_tombstone(self) ==
  IF ~self.deleted THEN [res |-> Err("NotDeleted"), tombstone |-> None]
  ELSE IF ~ParsesAsUri(self.ap_id)
    THEN [res |-> Err("InvalidUri"), tombstone |-> None]
  ELSE [ res |-> Ok,
         tombstone |->
           Some([ id |-> self.ap_id, former_type |-> "Page",
                  deleted |-> convert_datetime(
                    IF self.updated # None THEN self.updated[1] ELSE 30) ]) ]

\* The document on the wire: the page's fields and, merged in, the extension
\* block, either of which a remote sender may leave out.
WireOf(page) == [inner |-> page.inner, ext |-> Some(page.ext_one)]

Tamper(wire, drop) ==
  [ inner |->
      [ wire.inner EXCEPT
          !.attributed_to = IF "attributedTo" \in drop THEN None ELSE @,
          !.to = IF "to" \in drop THEN None ELSE @ ],
    ext |-> IF "ext" \in drop THEN None ELSE wire.ext ]

\* Deserialization of a received document into PageExt (Ext1<Page, PageExtension>).
deserialize_page(wire) ==
  IF wire.ext = None
    THEN [res |-> Err("MissingExtension"), page |-> None]
    ELSE [ res |-> Ok,
           page |-> Some([inner |-> wire.inner, ext_one |-> wire.ext[1]]) ]

\* get_or_fetch_and_upsert_remote_user / _community: the local row whose
\* actor id is the URI, else a remote fetch, which finds no such actor.
resolve_actor(uri, table) ==
  LET known == { k \in DOMAIN table : table[k].actor_id = uri }
  IN IF known # {}
       THEN [res |-> Ok, row |-> Some(table[CHOOSE k \in known : TRUE])]
       ELSE [res |-> Err("RemoteFetchFailed"), row |-> None]

\* The PostForm literal with the fields a mutant changes left open.
post_form_with(page, creator, community, locked, nsfw, description) ==
  LET inner == page.inner
      preview == inner.preview
  IN [ name |-> inner.summary[1], url |-> inner.url, body |-> inner.content,
       creator_id |-> creator.id, community_id |-> community.id,
       removed |-> None, locked |-> locked,
       published |->
         IF inner.published # None
           THEN Some(naive_local(inner.published[1])) ELSE None,
       updated |->
         IF inner.updated # None
           THEN Some(naive_local(inner.updated[1])) ELSE None,
       deleted |-> None, nsfw |-> nsfw, stickied |-> None,
       embed_title |-> IF preview # None THEN preview[1].name ELSE None,
       embed_description |-> description,
       embed_html |-> IF preview # None THEN preview[1].content ELSE None,
       thumbnail_url |-> inner.image, ap_id |-> inner.id[1], local |-> FALSE ]

\* Mutant: the embed description read from the preview's content.
post_form_swapped(page, creator, community) ==
  post_form_with(page, creator, community,
                 Some(~page.ext_one.comments_enabled), page.ext_one.sensitive,
                 IF page.inner.preview # None
                   THEN page.inner.preview[1].content ELSE None)

\* Mutant: locked and nsfw left at their defaults.
post_form_defaults(page, creator, community) ==
  post_form_with(page, creator, community, Some(FALSE), FALSE,
                 IF page.inner.preview # None
                   THEN page.inner.preview[1].summary ELSE None)

\* The PostForm literal at the end of PostForm::from_apub.
post_form(page, creator, community) ==
  LET inner == page.inner
      ext == page.ext_one
      preview == inner.preview
  IN [ name |-> inner.summary[1],
       url |-> inner.url,
       body |-> inner.content,
       creator_id |-> creator.id,
       community_id |-> community.id,
       removed |-> None,
       locked |-> Some(~ext.comments_enabled),
       published |->
         IF inner.published # None
           THEN Some(naive_local(inner.published[1])) ELSE None,
       updated |->
         IF inner.updated # None
           THEN Some(naive_local(inner.updated[1])) ELSE None,
       deleted |-> None,
       nsfw |-> ext.sensitive,
       stickied |-> None,
       embed_title |-> IF preview # None THEN preview[1].name ELSE None,
       embed_description |-> IF preview # None THEN preview[1].summary ELSE None,
       embed_html |-> IF preview # None THEN preview[1].content ELSE None,
       thumbnail_url |-> inner.image,
       ap_id |-> inner.id[1],
       local |-> FALSE ]

\* PostForm::from_apub on a deserialized page, against the actor tables.
from_apub(page, usertable, communitytable) ==
  LET inner == page.inner
      creator == resolve_actor(inner.attributed_to[1], usertable)
      community == resolve_actor(inner.to[1], communitytable)
  IN IF inner.attributed_to = None THEN [res |-> Panic, form |-> None]
     ELSE IF creator.res.tag # "Ok" THEN [res |-> creator.res, form |-> None]
     ELSE IF inner.to = None THEN [res |-> Panic, form |-> None]
     ELSE IF community.res.tag # "Ok" THEN [res |-> community.res, form |-> None]
     ELSE IF inner.summary = None \/ inner.id = None
       THEN [res |-> Panic, form |-> None]
     ELSE [ res |-> Ok,
            form |-> Some(post_form(page, creator.row[1], community.row[1])) ]

\* --------------------------------------------------------------- envelopes

\* populate_object_props, then set_actor_xsd_any_uri and set_object_base_box.
activity(kind, id, community, actor, object) ==
  [ kind |-> kind, id |-> id, to |-> <<get_followers_url(community)>>,
    actor |-> actor.actor_id, object |-> object ]

build_create(self, creator, community, page, u1, u2) ==
  activity("Create", self.ap_id \o "/create/" \o u1, community, creator, page)

build_update(self, creator, community, page, u1, u2) ==
  activity("Update", self.ap_id \o "/update/" \o u1, community, creator, page)

build_delete(self, creator, community, page, u1, u2) ==
  activity("Delete", self.ap_id \o "/delete/" \o u1, community, creator, page)

\* Mutant: the Delete goes out itself, under the undo id.
build_undo_delete_unwrapped(self, creator, community, page, u1, u2) ==
  activity("Delete", self.ap_id \o "/undo/delete/" \o u2, community, creator, page)

build_undo_delete(self, creator, community, page, u1, u2) ==
  LET delete ==
        activity("Delete", self.ap_id \o "/delete/" \o u1, community, creator, page)
  IN activity("Undo", self.ap_id \o "/undo/delete/" \o u2, community, creator, delete)

\* Mutant: the removal stamped with the post's author.
build_remove_as_author(self, mod_, community, page, u1, u2) ==
  activity("Remove", self.ap_id \o "/remove/" \o u1, community, Alice, page)

build_remove(self, mod_, community, page, u1, u2) ==
  activity("Remove", self.ap_id \o "/remove/" \o u1, community, mod_, page)

build_undo_remove(self, mod_, community, page, u1, u2) ==
  LET remove ==
        activity("Remove", self.ap_id \o "/remove/" \o u1, community, mod_, page)
  IN activity("Undo", self.ap_id \o "/undo/remove/" \o u2, community, mod_, remove)

build_like(self, creator, community, page, u1, u2) ==
  activity("Like", self.ap_id \o "/like/" \o u1, community, creator, page)

build_dislike(self, creator, community, page, u1, u2) ==
  activity("Dislike", self.ap_id \o "/dislike/" \o u1, community, creator, page)

\* Mutant: the Undo is given the id of the Like it embeds.
build_undo_like_same_id(self, creator, community, page, u1, u2) ==
  LET like ==
        activity("Like", self.ap_id \o "/like/" \o u1, community, creator, page)
  IN activity("Undo", like.id, community, creator, like)

build_undo_like(self, creator, community, page, u1, u2) ==
  LET like ==
        activity("Like", self.ap_id \o "/like/" \o u1, community, creator, page)
  IN activity("Undo", self.ap_id \o "/undo/like/" \o u2, community, creator, like)

UndoOps == {"send_undo_delete", "send_undo_remove", "send_undo_like"}
FacadeOps ==
  { "send_create", "send_update", "send_delete", "send_remove", "send_like",
    "send_dislike" } \cup UndoOps

\* How many ids an operation mints.
IdsOf(op) == IF op \in UndoOps THEN 2 ELSE 1

build(op, self, actor, community, page, u1, u2) ==
  CASE op = "send_create"      -> build_create(self, actor, community, page, u1, u2)
    [] op = "send_update"      -> build_update(self, actor, community, page, u1, u2)
    [] op = "send_delete"      -> build_delete(self, actor, community, page, u1, u2)
    [] op = "send_undo_delete" -> build_undo_delete(self, actor, community, page, u1, u2)
    [] op = "send_remove"      -> build_remove(self, actor, community, page, u1, u2)
    [] op = "send_undo_remove" -> build_undo_remove(self, actor, community, page, u1, u2)
    [] op = "send_like"        -> build_like(self, actor, community, page, u1, u2)
    [] op = "send_dislike"     -> build_dislike(self, actor, community, page, u1, u2)
    [] op = "send_undo_like"   -> build_undo_like(self, actor, community, page, u1, u2)

\* The ids of an envelope: the embedded activity's first, then its own.
IdsIn(act) ==
  IF act.kind = "Undo" THEN <<act.object.id, act.id>> ELSE <<act.id>>

\* send_activity_to_community: one delivery per inbox of `to`, each of which
\* may fail on its own; the call fails when any delivery did.
send_activity_to_community(sender, community, to, act, failed) ==
  [ call |-> [ sender |-> sender, community |-> community, to |-> to,
               activity |-> act, failed |-> failed ],
    res |-> IF failed = {} THEN Ok ELSE Err("DeliveryFailed") ]

\* ------------------------------------------------------------------- tasks

IdleTask ==
  [ op |-> "idle", pc |-> "idle", req |-> "", self |-> None, actor |-> None,
    creator |-> None, community |-> None, translator |-> "none",
    page |-> None, tombstone |-> None, sent |-> << >>, wire |-> None,
    form |-> None, result |-> None ]

Free == task.pc \in {"idle", "done"}

Finish(t, res) == [t EXCEPT !.pc = "done", !.result = Some(res)]

\* The entry of a send_* operation: self is the post as the application
\* last wrote it, the acting user is the caller's copy of a User_ row; the
\* first thing the operation does is call self.to_apub.
Invoke(op, u) ==
  /\ Free
  /\ Len(minted) + IdsOf(op) <= MaxMinted
  /\ 1 \in DOMAIN posts
  /\ task' = [ IdleTask EXCEPT !.op = op, !.pc = "to_apub_creator",
                               !.self = Some(posts[1]), !.actor = Some(u),
                               !.translator = "to_apub" ]
  /\ UNCHANGED <<posts, users, communities, minted, rng>>

send_create(u) == Invoke("send_create", u)
send_update(u) == Invoke("send_update", u)
send_delete(u) == Invoke("send_delete", u)
send_undo_delete(u) == Invoke("send_undo_delete", u)
send_remove(u) == Invoke("send_remove", u)
send_undo_remove(u) == Invoke("send_undo_remove", u)
send_like(u) == Invoke("send_like", u)
send_dislike(u) == Invoke("send_dislike", u)
send_undo_like(u) == Invoke("send_undo_like", u)

\* Mutant: get_apub_post without the test of the deleted flag.
get_apub_post_unchecked(req) ==
  /\ Free
  /\ LET id == ParseI32(req)
         t == [IdleTask EXCEPT !.op = "get_apub_post", !.req = req]
     IN task' =
          IF id = None THEN Finish(t, Err("ParseIntError"))
          ELSE IF id[1] \notin DOMAIN posts THEN Finish(t, Err("NotFound"))
          ELSE [ t EXCEPT !.self = Some(posts[id[1]]), !.pc = "to_apub_creator",
                          !.translator = "to_apub" ]
  /\ UNCHANGED <<posts, users, communities, minted, rng>>

\* get_apub_post up to its choice between the two translations.
get_apub_post(req) ==
  /\ Free
  /\ LET id == ParseI32(req)
         t == [IdleTask EXCEPT !.op = "get_apub_post", !.req = req]
     IN task' =
          IF id = None THEN Finish(t, Err("ParseIntError"))
          ELSE IF id[1] \notin DOMAIN posts THEN Finish(t, Err("NotFound"))
          ELSE LET post == posts[id[1]]
                   ts == to_tombstone(post)
               IN IF ~post.deleted
                    THEN [ t EXCEPT !.self = Some(post), !.pc = "to_apub_creator",
                                    !.translator = "to_apub" ]
                    ELSE Finish([ t EXCEPT !.self = Some(post),
                                           !.translator = "to_tombstone",
                                           !.tombstone = ts.tombstone ], ts.res)
  /\ UNCHANGED <<posts, users, communities, minted, rng>>

\* to_apub: User_::read(conn, creator_id)
to_apub_read_creator ==
  /\ task.pc = "to_apub_creator"
  /\ LET id == task.self[1].creator_id
     IN task' =
          IF id \in DOMAIN users
            THEN [task EXCEPT !.creator = Some(users[id]), !.pc = "to_apub_community"]
            ELSE Finish(task, Err("NotFound"))
  /\ UNCHANGED <<posts, users, communities, minted, rng>>

\* to_apub: Community::read(conn, community_id), and the rest of to_apub.
to_apub_read_community ==
  /\ task.pc = "to_apub_community"
  /\ LET self == task.self[1]
         id == self.community_id
     IN task' =
          IF id \notin DOMAIN communities THEN Finish(task, Err("NotFound"))
          ELSE IF ~ParsesAsUri(self.ap_id) THEN Finish(task, Err("InvalidUri"))
          ELSE LET page == to_apub_page(self, task.creator[1], communities[id])
                   t == [task EXCEPT !.page = Some(page)]
               IN IF task.op = "get_apub_post"
                    THEN Finish(t, Ok)
                    ELSE [t EXCEPT !.pc = "read_community"]
  /\ UNCHANGED <<posts, users, communities, minted, rng>>

\* Mutant: the second read falls back on the row to_apub saw.
read_community_stale ==
  /\ task.pc = "read_community"
  /\ task' = [task EXCEPT !.community = Some(MainCommunity), !.pc = "send"]
  /\ UNCHANGED <<posts, users, communities, minted, rng>>

\* send_*: the operation's own Community::read(conn, community_id).
read_community ==
  /\ task.pc = "read_community"
  /\ LET id == task.self[1].community_id
     IN task' =
          IF id \in DOMAIN communities
            THEN [task EXCEPT !.community = Some(communities[id]), !.pc = "send"]
            ELSE Finish(task, Err("NotFound"))
  /\ UNCHANGED <<posts, users, communities, minted, rng>>

\* Mutant: the dispatcher's result is dropped.
send_swallowing(failed) ==
  /\ task.pc = "send"
  /\ LET community == task.community[1]
         inboxes == <<get_shared_inbox_url(community)>>
         act == build(task.op, task.self[1], task.actor[1], community,
                      task.page[1], new_v4(rng), new_v4(rng + 1))
         out == send_activity_to_community(task.actor[1], community, inboxes,
                                           act, failed)
     IN /\ failed \subseteq { inboxes[i] : i \in DOMAIN inboxes }
        /\ task' = Finish([task EXCEPT !.sent = Append(@, out.call)], Ok)
        /\ minted' = minted \o [ i \in DOMAIN IdsIn(act) |->
                                   [op |-> task.op, id |-> IdsIn(act)[i]] ]
        /\ rng' = rng + IdsOf(task.op)
  /\ UNCHANGED <<posts, users, communities>>

\* send_*: mint the id(s), build the envelope, hand it to the dispatcher.
send(failed) ==
  /\ task.pc = "send"
  /\ LET community == task.community[1]
         inboxes == <<get_shared_inbox_url(community)>>
         act == build(task.op, task.self[1], task.actor[1], community,
                      task.page[1], new_v4(rng), new_v4(rng + 1))
         out == send_activity_to_community(task.actor[1], community, inboxes,
                                           act, failed)
     IN /\ failed \subseteq { inboxes[i] : i \in DOMAIN inboxes }
        /\ task' = Finish([task EXCEPT !.sent = Append(@, out.call)], out.res)
        /\ minted' = minted \o [ i \in DOMAIN IdsIn(act) |->
                                   [op |-> task.op, id |-> IdsIn(act)[i]] ]
        /\ rng' = rng + IdsOf(task.op)
  /\ UNCHANGED <<posts, users, communities>>

\* A remote server takes the page this server last put out, possibly drops
\* mandatory parts of it, and sends it back: deserialization, then from_apub.
receive_page(drop) ==
  /\ task.pc = "done"
  /\ task.op # "from_apub"
  /\ task.page # None
  /\ task.result = Some(Ok)
  /\ LET wire == Tamper(WireOf(task.page[1]), drop)
         de == deserialize_page(wire)
         t == [ IdleTask EXCEPT !.op = "from_apub", !.self = task.self,
                                !.wire = Some(wire), !.page = de.page ]
     IN task' =
          IF de.res.tag # "Ok" THEN Finish(t, de.res)
          ELSE LET r == from_apub(de.page[1], users, communities)
               IN Finish([t EXCEPT !.form = r.form], r.res)
  /\ UNCHANGED <<posts, users, communities, minted, rng>>

\* ------------------------------------------------------------- application

\* The application sets or clears the deleted flag of the post.
app_set_deleted(b) ==
  /\ 1 \in DOMAIN posts
  /\ posts[1].deleted # b
  /\ posts' = [posts EXCEPT ![1].deleted = b]
  /\ UNCHANGED <<users, communities, task, minted, rng>>

\* A user row goes away.  Only the author's row is ever read from storage.
app_drop_user(u) ==
  /\ u \in DOMAIN users
  /\ users' = [k \in DOMAIN users \ {u} |-> users[k]]
  /\ UNCHANGED <<posts, communities, task, minted, rng>>

\* The community row goes away.
app_drop_community ==
  /\ DOMAIN communities # {}
  /\ communities' = [k \in {} |-> MainCommunity]
  /\ UNCHANGED <<posts, users, task, minted, rng>>

\* ---------------------------------------------------------- specifications

Storage ==
  /\ users = [k \in {Alice.id, Bob.id} |-> IF k = Alice.id THEN Alice ELSE Bob]
  /\ communities = [k \in {MainCommunity.id} |-> MainCommunity]
  /\ task = IdleTask
  /\ minted = << >>
  /\ rng = 1

Init ==
  /\ \E p \in FacadePosts : posts = [k \in {p.id} |-> p]
  /\ Storage

Environment ==
  \/ \E b \in BOOLEAN : app_set_deleted(b)
  \/ app_drop_user(Alice.id)
  \/ app_drop_community

Translation ==
  \/ \E req \in {"1", "2", "x"} : get_apub_post(req)
  \/ to_apub_read_creator
  \/ to_apub_read_community
  \/ \E drop \in SUBSET {"attributedTo", "to", "ext"} : receive_page(drop)

Next ==
  \/ \E u \in {Alice, Bob} : send_create(u)
  \/ \E u \in {Alice, Bob} : send_update(u)
  \/ \E u \in {Alice, Bob} : send_delete(u)
  \/ \E u \in {Alice, Bob} : send_undo_delete(u)
  \/ \E u \in {Alice, Bob} : send_remove(u)
  \/ \E u \in {Alice, Bob} : send_undo_remove(u)
  \/ \E u \in {Alice, Bob} : send_like(u)
  \/ \E u \in {Alice, Bob} : send_dislike(u)
  \/ \E u \in {Alice, Bob} : send_undo_like(u)
  \/ read_community
  \/ \E failed \in SUBSET {get_shared_inbox_url(MainCommunity)} : send(failed)
  \/ Translation
  \/ Environment

Spec == Init /\ [][Next]_vars

\* The translation alone, on every combination of the fields it reads.
InitT ==
  /\ \E p \in AllPosts : posts = [k \in {p.id} |-> p]
  /\ Storage

NextT == Translation \/ Environment

SpecT == InitT /\ [][NextT]_vars

\* ------------------------------------------------------------------ claims

Done == task.pc = "done"
Result(r) == task.result = Some(r)
Self == task.self[1]
IsFacade == task.op \in FacadeOps
\* A page came back through from_apub as a PostForm.
CameBack == task.op = "from_apub" /\ Done /\ task.form # None
HasUrl(p) == p.url # None /\ p.url[1] # ""

\* The fields of the round trip that never depend on the url.
SameBasics(p, f) ==
  /\ f.name = p.name
  /\ f.body = p.body
  /\ f.locked = Some(p.locked)
  /\ f.nsfw = p.nsfw
  /\ f.local = FALSE
  /\ f.ap_id = task.wire[1].inner.id[1]
  /\ f.ap_id = p.ap_id

SameLink(p, f) ==
  /\ f.url = p.url
  /\ f.embed_title = p.embed_title
  /\ f.embed_description = p.embed_description
  /\ f.embed_html = p.embed_html

\* C1 as stated: for every local, non-deleted Post, to_apub followed by
\* from_apub gives back title, body, url, embed metadata and flags exactly,
\* with local false and ap_id the wire id, whatever the url is.
C1_RoundTripAllPosts ==
  (CameBack /\ Self.local /\ ~Self.deleted) =>
    SameBasics(Self, task.form[1]) /\ SameLink(Self, task.form[1])

\* C1 amended: title, body, flags, local and ap_id always come back; url and
\* embed metadata come back exactly when the Post's url is set and not empty,
\* and otherwise the PostForm's url and embed fields are all None.
C1_RoundTrip ==
  (CameBack /\ Self.local /\ ~Self.deleted) =>
    /\ SameBasics(Self, task.form[1])
    /\ HasUrl(Self) => SameLink(Self, task.form[1])
    /\ ~HasUrl(Self) =>
         /\ task.form[1].url = None
         /\ task.form[1].embed_title = None
         /\ task.form[1].embed_description = None
         /\ task.form[1].embed_html = None

C1_Witness ==
  /\ CameBack /\ Self.local /\ ~Self.deleted
  /\ HasUrl(Self)
  /\ Self.embed_title # None /\ Self.embed_description # None
  /\ Self.embed_html # None /\ Self.body # None /\ Self.locked

\* C2 as stated: for a Post whose deleted flag is set no operation, neither
\* get_apub_post nor a send_* operation, invokes to_apub.
C2_NoFullObjectForDeleted ==
  (task.op # "from_apub" /\ task.self # None /\ Self.deleted) =>
    task.translator # "to_apub"

\* C2 amended: get_apub_post of a deleted Post runs to_tombstone and never
\* to_apub (and of a live Post, to_apub); every send_* operation invokes
\* to_apub whatever the deleted flag is.
C2_TombstoneOnRead ==
  /\ (task.op = "get_apub_post" /\ task.self # None) =>
       IF Self.deleted
         THEN task.translator = "to_tombstone" /\ task.page = None
         ELSE task.translator = "to_apub" /\ task.tombstone = None
  /\ IsFacade => task.translator = "to_apub" /\ task.tombstone = None

C2_Witness ==
  /\ task.op = "get_apub_post" /\ Done /\ task.self # None /\ Self.deleted
  /\ task.translator = "to_tombstone" /\ task.tombstone # None

\* The ids an operation may mint under a path segment.
IdsUnder(ap_id, segment) ==
  { ap_id \o segment \o new_v4(n) : n \in 1..(MaxMinted + 1) }

\* The path segments of the ids an operation mints.
SegmentsOf(op) ==
  CASE op = "send_create"      -> {"/create/"}
    [] op = "send_update"      -> {"/update/"}
    [] op = "send_delete"      -> {"/delete/"}
    [] op = "send_undo_delete" -> {"/delete/", "/undo/delete/"}
    [] op = "send_remove"      -> {"/remove/"}
    [] op = "send_undo_remove" -> {"/remove/", "/undo/remove/"}
    [] op = "send_like"        -> {"/like/"}
    [] op = "send_dislike"     -> {"/dislike/"}
    [] op = "send_undo_like"   -> {"/like/", "/undo/like/"}

\* C3: the ids minted over any sequence of send_* operations are pairwise
\* distinct, the embedded and the Undo id of an undo operation included;
\* each is the ap_id, the segment of its kind and a suffix.
C3_UniqueActivityIds ==
  /\ \A i, j \in DOMAIN minted : i # j => minted[i].id # minted[j].id
  /\ \A i \in DOMAIN minted :
       \E seg \in SegmentsOf(minted[i].op) :
         minted[i].id \in IdsUnder(posts[1].ap_id, seg)

\* send_delete and then send_undo_delete: two ids under <ap_id>/delete/ and
\* one under <ap_id>/undo/delete/.
C3_Witness ==
  /\ Len(minted) = 3
  /\ minted[1].op = "send_delete"
  /\ minted[2].op = "send_undo_delete"
  /\ minted[3].op = "send_undo_delete"

UndoneKind(op) ==
  CASE op = "send_undo_delete" -> "Delete"
    [] op = "send_undo_remove" -> "Remove"
    [] op = "send_undo_like"   -> "Like"

UndoneSegment(op) ==
  CASE op = "send_undo_delete" -> "/delete/"
    [] op = "send_undo_remove" -> "/remove/"
    [] op = "send_undo_like"   -> "/like/"

\* What the operation being undone would send for the same inputs.
Undone(op, u1) ==
  CASE op = "send_undo_delete" ->
         build_delete(Self, task.actor[1], task.community[1], task.page[1], u1, u1)
    [] op = "send_undo_remove" ->
         build_remove(Self, task.actor[1], task.community[1], task.page[1], u1, u1)
    [] op = "send_undo_like" ->
         build_like(Self, task.actor[1], task.community[1], task.page[1], u1, u1)

\* C4: an undo operation delivers exactly one activity, an Undo with an id
\* under <ap_id>/undo/<kind>/ that embeds the activity of the undone kind
\* (id under <ap_id>/<kind>/) carrying the page, with the actor and the
\* audience the undone operation would use; that activity never goes out
\* on its own.
C4_UndoWrapsOriginalKind ==
  (task.op \in UndoOps /\ Done /\ task.community # None) =>
    /\ Len(task.sent) = 1
    /\ LET undo == task.sent[1].activity
           inner == undo.object
       IN /\ undo.kind = "Undo"
          /\ undo.id \in IdsUnder(Self.ap_id, "/undo" \o UndoneSegment(task.op))
          /\ inner.kind = UndoneKind(task.op)
          /\ inner.id \in IdsUnder(Self.ap_id, UndoneSegment(task.op))
          /\ inner.object = task.page[1]
          /\ \E n \in 1..(MaxMinted + 1) : inner = Undone(task.op, new_v4(n))
          /\ undo.actor = inner.actor
          /\ undo.to = inner.to
          /\ undo.to = <<get_followers_url(task.community[1])>>

C4_Witness ==
  /\ task.op = "send_undo_delete" /\ Done /\ Result(Ok)
  /\ Len(task.sent) = 1 /\ task.sent[1].activity.object.kind = "Delete"

\* C5: to_apub of a Post with url = Some("") gives a page with no url and no
\* preview, the very page it gives for the same Post with url = None.
C5_EmptyUrlNormalization ==
  (task.op # "from_apub" /\ task.page # None /\ Self.url = Some("")) =>
    /\ task.page[1].inner.url = None
    /\ task.page[1].inner.preview = None
    /\ task.page[1] =
         to_apub_page([Self EXCEPT !.url = None], task.creator[1], MainCommunity)

C5_Witness ==
  /\ task.op = "get_apub_post" /\ Done /\ task.page # None
  /\ Self.url = Some("")
  /\ Self.embed_title # None /\ Self.embed_description # None
  /\ Self.embed_html # None

\* C6: from_apub of a page without attributed-to, or without audience,
\* returns a MissingField error to its caller and no PostForm.
C6_MissingFieldIsReturned ==
  ( /\ task.op = "from_apub" /\ Done
    /\ task.wire[1].ext # None
    /\ task.wire[1].inner.attributed_to = None \/ task.wire[1].inner.to = None )
  => Result(Err("MissingField")) /\ task.form = None

\* C7: a step of a send_* operation never writes posts, users or communities,
\* and when the dispatcher fails the operation ends with that error.
C7_FailureReportedNothingWritten ==
  [][ (task' # task /\ task'.op \in FacadeOps) =>
        /\ UNCHANGED <<posts, users, communities>>
        /\ ( /\ task'.pc = "done" /\ task'.sent # << >>
             /\ task'.sent[1].failed # {} )
           => task'.result = Some(Err("DeliveryFailed")) ]_vars

\* send_delete of a post the application has deleted fails to deliver; the
\* post is still deleted.
C7_Witness ==
  /\ task.op = "send_delete" /\ Done /\ Result(Err("DeliveryFailed"))
  /\ task.sent[1].failed # {}
  /\ Self.deleted /\ posts[1] = Self

\* C8: a document without the extension block is rejected with
\* MissingExtension and gives no PostForm; locked and nsfw of a PostForm are
\* those of the extension block of the document.
C8_MissingExtensionRejected ==
  (task.op = "from_apub" /\ Done) =>
    /\ task.wire[1].ext = None =>
         Result(Err("MissingExtension")) /\ task.form = None
    /\ task.form # None =>
         /\ task.wire[1].ext # None
         /\ task.form[1].locked = Some(~task.wire[1].ext[1].comments_enabled)
         /\ task.form[1].nsfw = task.wire[1].ext[1].sensitive

C8_Witness ==
  /\ task.op = "from_apub" /\ Done /\ task.wire[1].ext = None
  /\ task.wire[1].inner.attributed_to # None /\ Self.locked /\ Self.nsfw
  /\ Result(Err("MissingExtension")) /\ task.form = None

\* C9: the actor of the delivered envelope is the actor id of the user passed
\* as acting party, who is also the sender handed to the dispatcher; in an
\* undo the embedded activity carries the same actor.
C9_ActingPrincipal ==
  (IsFacade /\ task.sent # << >>) =>
    LET call == task.sent[1]
    IN /\ call.activity.actor = task.actor[1].actor_id
       /\ call.sender = task.actor[1]
       /\ call.activity.kind = "Undo" =>
            call.activity.object.actor = task.actor[1].actor_id

\* A moderator who is not the author removes the post.
C9_Witness ==
  /\ task.op = "send_remove" /\ Done /\ task.sent # << >>
  /\ task.actor[1] = Bob
  /\ Self.creator_id # Bob.id
  /\ task.sent[1].activity.actor = Bob.actor_id

InFlight == IsFacade /\ task.pc \notin {"idle", "done"}
NotFoundNext ==
  /\ task'.pc = "done"
  /\ task'.result = Some(Err("NotFound"))
  /\ task'.sent = << >>

\* C10: a send_* operation reads creator, then community, then the community
\* again, then delivers; a read of a missing row ends it with NotFound and no
\* delivery; a delivery is issued only by the last step, once, to the shared
\* inbox of the community.
C10_NotFoundAbortsBeforeDelivery ==
  [][ (InFlight /\ task' # task) =>
        /\ task.pc = "to_apub_creator" =>
             IF Self.creator_id \in DOMAIN users
               THEN task'.pc = "to_apub_community" /\ task'.sent = << >>
               ELSE NotFoundNext
        /\ task.pc = "to_apub_community" =>
             IF Self.community_id \in DOMAIN communities
               THEN /\ task'.sent = << >>
                    /\ \/ task'.pc = "read_community"
                       \/ task'.result = Some(Err("InvalidUri"))
               ELSE NotFoundNext
        /\ task.pc = "read_community" =>
             IF Self.community_id \in DOMAIN communities
               THEN task'.pc = "send" /\ task'.sent = << >>
               ELSE NotFoundNext
        /\ task.pc = "send" =>
             /\ task'.pc = "done"
             /\ Len(task'.sent) = 1
             /\ task'.sent[1].to = <<get_shared_inbox_url(task.community[1])>>
             /\ task'.result = Some(Ok) \/ task'.result = Some(Err("DeliveryFailed"))
    ]_vars

\* The community went away between the read inside to_apub and the second read.
C10_Witness ==
  /\ IsFacade /\ Done /\ Result(Err("NotFound"))
  /\ task.page # None /\ task.sent = << >>

====
